---- MODULE Spec2Model ----
(***************************************************************************)
(* YardBoy: the zone store (schema-versioned load, validation, reseed and  *)
(* write-through save), the Add Plant modal and zone creation, the quest   *)
(* flags, the zone filter and the weather refreshes of src/src/App.tsx,    *)
(* and the serverless identify function of src/api/identify.ts, as a state *)
(* machine.                                                                *)
(*                                                                         *)
(* JavaScript values are tagged records: the tag t is what typeof and the  *)
(* truthiness tests read.  A string is a sequence of text atoms (field s): *)
(* the searched fields (name, type, tags, sun, query) are spelled one      *)
(* character per atom, fields that the code only compares or passes on     *)
(* (area, orientation, notes, ids) are one atom.  Characters outside ASCII *)
(* are written as the atom "U+<code point>".  A string that holds the JSON *)
(* text of a value carries that value in the field json; a string given by *)
(* its atoms (field s) is text that JSON.parse rejects, or is never parsed.*)
(***************************************************************************)
EXTENDS Integers, Sequences, FiniteSets, TLC

VARIABLES
    storage,       \* localStorage: key -> string, or null when the key is absent
    baseIds,       \* the ids uid() drew for BASE_ZONES when the module was loaded
    uidStream,     \* the ids the next calls of uid() will draw, in order
    quests,        \* the static quest list (QUESTS in the shipped build)
    pc,            \* "boot", "loaded", "rendered", "ready", "crashed"; "raised" if the load threw
    zones,         \* useState<Zone[]>: the in-memory collection
    checks,        \* useState<boolean[]>: the quest flags
    areaFilter,    \* useState: "All" or an area
    query,         \* useState: the search text
    showBuilder,   \* useState: the Add Plant modal is open
    modal,         \* the state of AddPlantModal
    inFlight,      \* identifyViaProxy calls awaiting their response
    staleInFlight, \* those of them issued before the modal was last closed
    weatherData,   \* useState<WeatherData | null>
    weatherLoading,\* useState: a weather fetch has started and not settled
    weatherError,  \* useState<string | null>
    wxInFlight,    \* getCurrentWeather calls awaiting their result
    daylight,      \* the last call of calculateDaylightPercent: its arguments and result
    session,       \* the number of sessions started on this localStorage
    prevSession,   \* history: how the previous session ended
    handler,       \* the serverless identify function: the request it is serving
    delivery,      \* history: the last identification handed to runAI
    loadFault,     \* history: a storage call failed inside safeLoadZones
    checksFault,   \* history: the storage read of the initializer of checks failed and
                   \* the flags are not those the stored value gives
    preLoad,       \* history: localStorage as safeLoadZones found it
    loaded,        \* history: what safeLoadZones returned
    createdLog     \* history: the zones accept() built, oldest first

weatherVars == <<weatherData, weatherLoading, weatherError, wxInFlight>>
serverVars == <<handler, delivery>>
sessionVars == <<session, prevSession>>

vars == <<storage, baseIds, uidStream, quests, pc, zones, checks, areaFilter, query,
          showBuilder, modal, inFlight, staleInFlight, weatherVars, daylight,
          serverVars, sessionVars,
          loadFault, checksFault, preLoad, loaded, createdLog>>

(***************************************************************************)
(* JavaScript values                                                       *)
(***************************************************************************)
Undefined == [t |-> "undefined"]
Null == [t |-> "null"]
Bool(b) == [t |-> "boolean", b |-> b]
Num(n) == [t |-> "number", n |-> n]
NaN == [t |-> "number", nan |-> TRUE]
Str(atoms) == [t |-> "string", s |-> atoms]
JsonText(doc) == [t |-> "string", json |-> doc]
Arr(elems) == [t |-> "array", a |-> elems]

ZoneObj(id, name, area, type, orientation, sun, health, notes, tags, emoji, subzones) ==
    [t |-> "object", id |-> id, name |-> name, area |-> area, type |-> type,
     orientation |-> orientation, sun |-> sun, health |-> health, notes |-> notes,
     tags |-> tags, emoji |-> emoji, subzones |-> subzones]

IsNaN(v) == v.t = "number" /\ "nan" \in DOMAIN v
IsJsonText(v) == v.t = "string" /\ "json" \in DOMAIN v

\* typeof v
TypeOf(v) == IF v.t \in {"null", "array"} THEN "object" ELSE v.t

\* ToBoolean(v): what !v, v || w, v && w and filter(Boolean) test
Truthy(v) ==
    CASE v.t \in {"undefined", "null"} -> FALSE
      [] v.t = "boolean" -> v.b
      [] v.t = "number" -> ~IsNaN(v) /\ v.n # 0
      [] v.t = "string" -> IsJsonText(v) \/ v.s # <<>>
      [] OTHER -> TRUE

\* v || w
OrElse(v, w) == IF Truthy(v) THEN v ELSE w

\* obj.name and obj.area, read from any value that is not null or undefined
GetName(obj) == IF obj.t = "object" THEN obj.name ELSE Undefined
GetArea(obj) == IF obj.t = "object" THEN obj.area ELSE Undefined

Digits == <<"0", "1", "2", "3", "4", "5", "6", "7", "8", "9">>
IsDigit(c) == \E d \in 1..10 : Digits[d] = c
DigitValue(c) == (CHOOSE d \in 1..10 : Digits[d] = c) - 1

RECURSIVE DecimalValue(_)
DecimalValue(atoms) ==
    IF atoms = <<>> THEN 0
    ELSE 10 * DecimalValue(SubSeq(atoms, 1, Len(atoms) - 1)) + DigitValue(atoms[Len(atoms)])

\* Number(v) for the values the load hands it: a number, or a string
ToNumber(v) ==
    CASE v.t = "number" -> v
      [] IsJsonText(v) -> IF v.json.t = "number" THEN v.json ELSE NaN
      [] v.t = "string" ->
            IF \A i \in 1..Len(v.s) : IsDigit(v.s[i]) THEN Num(DecimalValue(v.s)) ELSE NaN
      [] OTHER -> NaN

\* String(n) of an integer: its decimal numeral, which is also its JSON text
StringOf(n) == JsonText(Num(n))

(***************************************************************************)
(* JSON                                                                    *)
(***************************************************************************)
RECURSIVE ToJson(_)
\* The value JSON.stringify writes for v: NaN becomes null, an undefined
\* array element becomes null, an undefined property is left out.
ToJson(v) ==
    CASE v.t = "number" -> IF IsNaN(v) THEN Null ELSE v
      [] v.t = "array" ->
            Arr([i \in 1..Len(v.a) |->
                    IF v.a[i].t = "undefined" THEN Null ELSE ToJson(v.a[i])])
      [] v.t = "object" ->
            ZoneObj(ToJson(v.id), ToJson(v.name), ToJson(v.area), ToJson(v.type),
                    ToJson(v.orientation), ToJson(v.sun), ToJson(v.health),
                    ToJson(v.notes), ToJson(v.tags), ToJson(v.emoji), ToJson(v.subzones))
      [] OTHER -> v

JSONstringify(v) == JsonText(ToJson(v))

\* JSON.parse(text) throws unless text is JSON text
ParseThrows(text) == ~IsJsonText(text)
JSONparse(text) == text.json

(***************************************************************************)
(* Constants                                                               *)
(***************************************************************************)
SCHEMA_VERSION == 4
ZKEY == "yardboy-zones"
SKEY == "yardboy-schema"
QDONE == "yardboy-quests-done"
Keys == {ZKEY, SKEY, QDONE}

AREAS == <<"All", "Front Yard", "Back Yard", "Side Yard", "South Side">>

\* localStorage.getItem / setItem
GetItem(store, key) == store[key]
SetItem(store, key, text) == [store EXCEPT ![key] = text]

(***************************************************************************)
(* The seed collection                                                     *)
(***************************************************************************)
\* BASE_ZONES, lines 46-157, with the ids uid() drew for it
SeedZones(ids) ==
    <<
    ZoneObj(Str(<<ids[1]>>),
        Str(<<"P", "o", "n", "d">>),
        Str(<<"Front Yard">>),
        Str(<<"P", "o", "n", "d", " ", "+", " ", "o", "r", "n", "a", "m", "e", "n", "t", "a", "l", "s">>),
        Str(<<"West">>),
        Str(<<"A", "f", "t", "e", "r", "n", "o", "o", "n", " ", "s", "u", "n", " ", "(", "a", "l", "g", "a", "e", "U+2011", "p", "r", "o", "n", "e", ")">>),
        Null,
        Arr(<<
            Str(<<"Skim debris; clean filter mid{U+2011}late summer">>),
            Str(<<"Monitor algae; shade or barley straw if bloom">>)>>),
        Undefined,
        Str(<<"U+1F438">>),
        Undefined),
    ZoneObj(Str(<<ids[2]>>),
        Str(<<"M", "u", "l", "c", "h", " ", "B", "e", "d">>),
        Str(<<"Front Yard">>),
        Str(<<"M", "a", "p", "l", "e", " ", "+", " ", "p", "e", "r", "e", "n", "n", "i", "a", "l", "s", " ", "(", "m", "u", "l", "c", "h", "e", "d", ")">>),
        Str(<<"West">>),
        Str(<<"P", "a", "r", "t", "i", "a", "l", " ", "s", "h", "a", "d", "e">>),
        Null,
        Arr(<<
            Str(<<"Keep mulch off trunk flare (3{U+2013}4\" ring)">>),
            Str(<<"Light summer water if 7+ dry days">>)>>),
        Undefined,
        Str(<<"U+1F341">>),
        Arr(<<
          ZoneObj(Str(<<ids[3]>>),
              Str(<<"J", "a", "p", "a", "n", "e", "s", "e", " ", "M", "a", "p", "l", "e", " ", "(", "f", "r", "o", "n", "t", ")">>),
              Str(<<"Front Yard">>),
              Str(<<"A", "c", "e", "r", " ", "p", "a", "l", "m", "a", "t", "u", "m">>),
              Str(<<"West">>),
              Str(<<"P", "M", " ", "s", "u", "n", ",", " ", "A", "M", " ", "s", "h", "a", "d", "e">>),
              Null,
              Arr(<<
                  Str(<<"Avoid heavy pruning in summer heat">>),
                  Str(<<"Slow{U+2011}release feed in spring only">>)>>),
              Undefined,
              Str(<<"U+1F333">>),
              Undefined)>>)),
    ZoneObj(Str(<<ids[4]>>),
        Str(<<"G", "r", "a", "s", "s", " ", "L", "a", "w", "n", " ", "(", "B", "a", "c", "k", ")">>),
        Str(<<"Back Yard">>),
        Str(<<"T", "u", "r", "f", "g", "r", "a", "s", "s", " ", "(", "c", "o", "o", "l", "U+2011", "s", "e", "a", "s", "o", "n", " ", "f", "e", "s", "c", "u", "e", " ", "m", "i", "x", ")">>),
        Str(<<"East">>),
        Str(<<"M", "o", "r", "n", "i", "n", "g", " ", "s", "u", "n", ",", " ", "a", "f", "t", "e", "r", "n", "o", "o", "n", " ", "s", "h", "a", "d", "e">>),
        Null,
        Arr(<<
            Str(<<"Mow ~3.5{U+2013}4\"">>),
            Str(<<"Overseed thin areas mid{U+2013}late Sept">>),
            Str(<<"Slow{U+2011}release N late Sept">>)>>),
        Undefined,
        Str(<<"U+1F33F">>),
        Undefined),
    ZoneObj(Str(<<ids[5]>>),
        Str(<<"A", "z", "a", "l", "e", "a", "s", " ", "(", "l", "e", "f", "t", " ", "o", "f", " ", "G", "a", "r", "d", "e", "n", " ", "B", "e", "d", ")">>),
        Str(<<"Back Yard">>),
        Str(<<"S", "h", "r", "u", "b", "s", " ", "(", "A", "z", "a", "l", "e", "a", "s", ")">>),
        Str(<<"East">>),
        Str(<<"P", "a", "r", "t", "i", "a", "l", " ", "s", "h", "a", "d", "e">>),
        Null,
        Arr(<<
            Str(<<"Keep evenly moist until fall rains">>),
            Str(<<"Mulch 2{U+2013}3\"; avoid crown">>),
            Str(<<"Acidic feed after bloom only (spring)">>)>>),
        Undefined,
        Str(<<"U+1F338">>),
        Undefined),
    ZoneObj(Str(<<ids[6]>>),
        Str(<<"S", "h", "r", "u", "b", "s", " ", "(", "s", "p", "a", "r", "s", "e", " ", "p", "l", "a", "n", "t", "i", "n", "g", "s", ")">>),
        Str(<<"Back Yard">>),
        Str(<<"S", "h", "r", "u", "b", "s">>),
        Str(<<"East">>),
        Str(<<"V", "a", "r", "i", "a", "b", "l", "e">>),
        Null,
        Arr(<<
            Str(<<"Audit in fall; plan fills for spring">>)>>),
        Undefined,
        Str(<<"U+1FAB4">>),
        Undefined),
    ZoneObj(Str(<<ids[7]>>),
        Str(<<"G", "a", "r", "d", "e", "n", " ", "B", "e", "d">>),
        Str(<<"Back Yard">>),
        Str(<<"S", "o", "i", "l", " ", "p", "r", "e", "p", " ", "a", "r", "e", "a">>),
        Str(<<"East">>),
        Str(<<"F", "u", "l", "l", " ", "m", "o", "r", "n", "i", "n", "g", " ", "s", "u", "n", ",", " ", "a", "f", "t", "e", "r", "n", "o", "o", "n", " ", "s", "h", "a", "d", "e">>),
        Null,
        Arr(<<
            Str(<<"Top up compost; broadfork if compacted">>),
            Str(<<"Plan fall cover crop (crimson clover/rye)">>)>>),
        Undefined,
        Str(<<"U+1F955">>),
        Undefined),
    ZoneObj(Str(<<ids[8]>>),
        Str(<<"D", "e", "c", "k", " ", "P", "e", "r", "i", "m", "e", "t", "e", "r", " ", "(", "f", "u", "t", "u", "r", "e", ")">>),
        Str(<<"South Side">>),
        Str(<<"D", "e", "c", "k", " ", "p", "l", "a", "n", "t", "i", "n", "g", "s">>),
        Str(<<"South">>),
        Str(<<"F", "u", "l", "l", " ", "s", "u", "n", ",", " ", "h", "o", "t", "t", "e", "s", "t", " ", "z", "o", "n", "e">>),
        Null,
        Arr(<<
            Str(<<"Trial drought{U+2011}tolerant perennials next year">>)>>),
        Undefined,
        Str(<<"U+1F31E">>),
        Undefined)
    >>

BASE_ZONES == SeedZones(baseIds)

(***************************************************************************)
(* Zone store: load and save                                               *)
(***************************************************************************)
isZone_NeedsId(obj) ==
    /\ Truthy(obj)
    /\ TypeOf(obj) = "object"
    /\ TypeOf(GetName(obj)) = "string"
    /\ TypeOf(GetArea(obj)) = "string"
    /\ obj.t = "object"
    /\ TypeOf(obj.id) = "string"

\* lines 164-166
isZone(obj) ==
    /\ Truthy(obj)
    /\ TypeOf(obj) = "object"
    /\ TypeOf(GetName(obj)) = "string"
    /\ TypeOf(GetArea(obj)) = "string"

\* The storage calls of safeLoadZones that may throw, and no fault at all
LoadFaults == {"none", "getSchema", "setZones", "setSchema", "getZones"}

LoadResult(ret, store, fault) == [ret |-> ret, store |-> store, fault |-> fault, raised |-> FALSE]

\* Number(localStorage.getItem(SKEY) || 0), line 170
StoredSchema(store) == ToNumber(OrElse(GetItem(store, SKEY), Num(0)))

Caught_Rethrow(store) == [LoadResult(BASE_ZONES, store, TRUE) EXCEPT !.raised = TRUE]

\* the catch clause, lines 182-184, reached with localStorage as `store`
Caught(store) == LoadResult(BASE_ZONES, store, TRUE)

SeedFallback_Persist(store) ==
    LoadResult(BASE_ZONES, SetItem(store, ZKEY, JSONstringify(Arr(BASE_ZONES))), FALSE)

\* return BASE_ZONES of lines 177, 179 and 181 (and of the catch clause when
\* JSON.parse throws): nothing is written
SeedFallback(store) == LoadResult(BASE_ZONES, store, FALSE)

Reseed_NoMarker(store, fault) ==
    IF fault = "setZones" THEN Caught(store)
    ELSE LoadResult(BASE_ZONES, SetItem(store, ZKEY, JSONstringify(Arr(BASE_ZONES))), FALSE)

\* the reseed of lines 172-174
Reseed(store, fault) ==
    IF fault = "setZones" THEN Caught(store)
    ELSE
    LET seeded == SetItem(store, ZKEY, JSONstringify(Arr(BASE_ZONES))) IN
    IF fault = "setSchema" THEN Caught(seeded)
    ELSE LoadResult(BASE_ZONES, SetItem(seeded, SKEY, StringOf(SCHEMA_VERSION)), FALSE)

\* lines 176-181
LoadStored(store, fault) ==
    IF fault = "getZones" THEN Caught(store)
    ELSE
    LET raw == GetItem(store, ZKEY) IN
    IF ~Truthy(raw) THEN SeedFallback(store)
    ELSE IF ParseThrows(raw) THEN SeedFallback(store)
    ELSE
    LET parsed == JSONparse(raw) IN
    IF parsed.t # "array" THEN SeedFallback(store)
    ELSE
    LET clean == SelectSeq(parsed.a, isZone) IN
    IF Len(clean) # 0 THEN LoadResult(clean, store, FALSE) ELSE SeedFallback(store)

\* safeLoadZones() on localStorage `store`, where the storage call `fault`
\* (if the load reaches it) throws: the collection returned, localStorage
\* afterwards, whether the catch clause ran for a storage fault, and whether
\* the call raised to its caller (the try block spans the whole body).
safeLoadZones(store, fault) ==
    IF fault = "getSchema" THEN Caught(store)
    ELSE IF StoredSchema(store) # Num(SCHEMA_VERSION) THEN Reseed(store, fault)
    ELSE LoadStored(store, fault)

saveZones_Skip(store, z) == store
saveZones_DropNewest(store, z) == SetItem(store, ZKEY, JSONstringify(Arr(Tail(z))))

\* saveZones(z), lines 187-189
saveZones(store, z) == SetItem(store, ZKEY, JSONstringify(Arr(z)))

\* the effect of line 433
saveChecks(store, c) == SetItem(store, QDONE, JSONstringify(Arr(c)))

(***************************************************************************)
(* Quests                                                                  *)
(***************************************************************************)
QUESTS ==
    << [text |-> "Keep azaleas watered weekly until rains", freq |-> "weekly"],
       [text |-> "Decide watering vs dormancy for front (west) lawn", freq |-> "biweekly"],
       [text |-> "Overseed patchy spots mid{U+2013}late Sept (fescue)", freq |-> "once"],
       [text |-> "First fall fertilizer late Sept (slow{U+2011}release N)", freq |-> "once"],
       [text |-> "Prep/compost garden bed; consider cover crop", freq |-> "once"] >>

\* Array(QUESTS.length).fill(false)
AllFalse(qs) == [i \in 1..Len(qs) |-> Bool(FALSE)]

loadChecks_NoSlice(qs, store, fault) ==
    IF fault THEN AllFalse(qs)
    ELSE
    LET raw == GetItem(store, QDONE) IN
    IF ~Truthy(raw) THEN AllFalse(qs)
    ELSE IF ParseThrows(raw) THEN AllFalse(qs)
    ELSE
    LET arr == JSONparse(raw) IN
    IF arr.t = "array" THEN arr.a ELSE AllFalse(qs)

\* the initializer of checks for the quest list qs; `fault`: localStorage.getItem throws
loadChecks(qs, store, fault) ==
    IF fault THEN AllFalse(qs)
    ELSE
    LET raw == GetItem(store, QDONE) IN
    IF ~Truthy(raw) THEN AllFalse(qs)
    ELSE IF ParseThrows(raw) THEN AllFalse(qs)
    ELSE
    LET arr == JSONparse(raw) IN
    IF arr.t = "array" THEN SubSeq(arr.a, 1, IF Len(arr.a) < Len(qs) THEN Len(arr.a) ELSE Len(qs))
    ELSE AllFalse(qs)

\* order[freq] of visibleTasks
Rank(freq) == CASE freq = "weekly" -> 0 [] freq = "biweekly" -> 1 [] freq = "once" -> 2

\* the quests of qs whose rank is r, in the order qs has them
RECURSIVE OfRank(_, _)
OfRank(qs, r) ==
    IF qs = <<>> THEN <<>>
    ELSE (IF Rank(Head(qs).freq) = r THEN <<Head(qs)>> ELSE <<>>) \o OfRank(Tail(qs), r)

\* visibleTasks: [...QUESTS].sort by rank; Array.prototype.sort is stable
visibleTasks(qs) == OfRank(qs, 0) \o OfRank(qs, 1) \o OfRank(qs, 2)

\* checks[i] || false, the checked state of the checkbox of row i (0-based)
Checked(c, i) == i >= 0 /\ i + 1 <= Len(c) /\ Truthy(c[i + 1])

\* done, total and pct of lines 448-450.  Math.round is taken on the exact
\* quotient: no quest list used here gives a quotient ending in .5
done(c) == Len(SelectSeq(c, Truthy))
total(qs) == Len(qs)
Round_Ceil(n, d) == (n + d - 1) \div d
\* Math.round of the quotient n / d of naturals
Round(n, d) == (2 * n + d) \div (2 * d)
pct(c, qs) == Round(done(c) * 100, IF total(qs) > 1 THEN total(qs) ELSE 1)
(***************************************************************************)
(* Plant identification, as the modal sees it                              *)
(***************************************************************************)
Chars_AI == <<" ", "(", "A", "I", ")">>
Chars_Plant == <<"P", "l", "a", "n", "t">>

Suggestion(name, percent, common_names, sunlight) ==
    [name |-> name, probability |-> percent, common_names |-> common_names,
     sunlight |-> sunlight]

SuggA == Suggestion(<<"F", "e", "r", "n">>, 80, << <<"S", "w", "o", "r", "d">> >>,
                    << <<"s", "h", "a", "d", "e">>, <<"s", "u", "n">> >>)
SuggB == Suggestion(<<"I", "v", "y">>, 15, <<>>, <<>>)
SuggC == Suggestion(<<"M", "o", "s", "s">>, 4, <<>>, << <<"s", "h", "a", "d", "e">> >>)
SuggD == Suggestion(<<"O", "a", "k">>, 1, <<>>, <<>>)

\* What the fetch of identifyViaProxy can come back with
HttpReply(ok, status, suggestions) == [ok |-> ok, status |-> status, suggestions |-> suggestions]
ProxyReplies ==
    { HttpReply(FALSE, "500", <<>>),
      HttpReply(TRUE, "200", <<>>),
      HttpReply(TRUE, "200", <<SuggB>>),
      HttpReply(TRUE, "200", <<SuggA, SuggB, SuggC, SuggD>>) }

Min(a, b) == IF a < b THEN a ELSE b

identifyViaProxy_AllowEmpty(reply) ==
    IF ~reply.ok THEN [threw |-> TRUE, message |-> <<"Proxy identify: HTTP ", reply.status>>, list |-> <<>>]
    ELSE [threw |-> FALSE, message |-> <<>>,
          list |-> SubSeq(reply.suggestions, 1, Min(3, Len(reply.suggestions)))]

\* identifyViaProxy: the list it resolves with, or the message it throws
identifyViaProxy(reply) ==
    IF ~reply.ok THEN [threw |-> TRUE, message |-> <<"Proxy identify: HTTP ", reply.status>>, list |-> <<>>]
    ELSE
    LET list == SubSeq(reply.suggestions, 1, Min(3, Len(reply.suggestions))) IN
    IF Len(list) = 0 THEN [threw |-> TRUE, message |-> <<"No suggestions returned">>, list |-> <<>>]
    ELSE [threw |-> FALSE, message |-> <<>>, list |-> list]

\* Array.prototype.join
RECURSIVE Join(_, _)
Join(strings, sep) ==
    IF strings = <<>> THEN <<>>
    ELSE IF Len(strings) = 1 THEN strings[1]
    ELSE strings[1] \o sep \o Join(Tail(strings), sep)

(***************************************************************************)
(* Add Plant modal                                                         *)
(***************************************************************************)
\* defaultArea, line 692
defaultArea(filter) == IF filter = "All" THEN "Front Yard" ELSE filter

\* the fields as the reset effect of lines 262-275 sets them
ModalReset(area) ==
    [name |-> <<>>, emoji |-> <<"U+1FAB4">>, type |-> Chars_Plant,
     sun |-> <<"U", "n", "k", "n", "o", "w", "n">>, area |-> area, file |-> FALSE,
     suggestions |-> Null, aiChosen |-> 0, loading |-> FALSE, error |-> Null]

OrientationOf_BackWest(area) ==
    IF area = "Front Yard" THEN "West"
    ELSE IF area = "Back Yard" THEN "West"
    ELSE IF area = "South Side" THEN "South"
    ELSE "N/A"

\* line 307
OrientationOf(area) ==
    IF area = "Front Yard" THEN "West"
    ELSE IF area = "Back Yard" THEN "East"
    ELSE IF area = "South Side" THEN "South"
    ELSE "N/A"

\* suggestions?.[aiChosen]?.name
ChosenName(m) ==
    IF m.suggestions.t = "array" /\ m.aiChosen + 1 <= Len(m.suggestions.a)
    THEN Str(m.suggestions.a[m.aiChosen + 1].name)
    ELSE Undefined

NameOf_First(m) ==
    OrElse(OrElse(Str(m.name),
                  IF m.suggestions.t = "array" THEN Str(m.suggestions.a[1].name) ELSE Undefined),
           Str(<<"N", "e", "w", " ", "P", "l", "a", "n", "t">>))

\* line 304
NameOf(m) == OrElse(OrElse(Str(m.name), ChosenName(m)), Str(<<"N", "e", "w", " ", "P", "l", "a", "n", "t">>))

\* the zone accept() builds, lines 302-314
NewZone(m, id) ==
    ZoneObj(Str(<<id>>), NameOf(m), Str(<<m.area>>), Str(m.type),
            Str(<<OrientationOf(m.area)>>), Str(m.sun), Null,
            Arr(<<Str(<<"Newly added plant {U+2014} monitor water the first 2 weeks.">>)>>),
            Undefined, Str(m.emoji), Undefined)

Prepend_Append(z, prev) == prev \o <<z>>

Prepend_Replace(z, prev) == <<z>>

\* onCreate, line 693
Prepend(z, prev) == <<z>> \o prev

(***************************************************************************)
(* The serverless identify function, src/api/identify.ts                   *)
(***************************************************************************)
\* an HTTP request as the handler reads it: req.method and req.body
Request(method, body) == [method |-> method, body |-> body]
Body(imageBase64) == [t |-> "object", imageBase64 |-> imageBase64]

\* what the handler answers: res.status(n).json(...), or res.json(...) with 200
Response(status, error, suggestions) ==
    [status |-> status, error |-> error, suggestions |-> suggestions]
NoResponse == Response(0, Undefined, Undefined)

\* an entry of plant.id's suggestions; a missing or empty text is <<>>
UpstreamSuggestion(plant_name, name, probability, common_names, sunlight) ==
    [plant_name |-> plant_name, name |-> name, probability |-> probability,
     common_names |-> common_names, sunlight |-> sunlight]

\* how the handler's fetch of plant.id ends: it throws, or answers with a
\* status; r.json() of an OK answer throws or gives a suggestion list (an
\* answer without suggestions has the empty list)
Upstream(threw, status, badJson, suggestions) ==
    [threw |-> threw, status |-> status, badJson |-> badJson, suggestions |-> suggestions]
NoUpstream == Upstream(FALSE, 0, FALSE, <<>>)

\* lines 24-33: one entry of the answer
ToSuggestion(s) ==
    Suggestion(IF s.plant_name # <<>> THEN s.plant_name
               ELSE IF s.name # <<>> THEN s.name
               ELSE <<"U", "n", "k", "n", "o", "w", "n">>,
               IF s.probability.t = "number" THEN s.probability.n ELSE 0,
               s.common_names, s.sunlight)

\* the handler at rest, and while it serves the request req of `origin`
HandlerIdle ==
    [pc |-> "idle", origin |-> "none", req |-> Request("", Undefined),
     contacted |-> FALSE, up |-> NoUpstream, res |-> NoResponse]

\* req.body || {} destructured
ImageOf(req) == IF Truthy(req.body) THEN req.body.imageBase64 ELSE Undefined

HandlerStart_BodyFirst(req, origin) ==
    LET h == [HandlerIdle EXCEPT !.origin = origin, !.req = req] IN
    IF ~Truthy(ImageOf(req))
    THEN [h EXCEPT !.pc = "done",
                   !.res = Response(400, Str(<<"imageBase64 required">>), Undefined)]
    ELSE IF req.method # "POST"
    THEN [h EXCEPT !.pc = "done", !.res = Response(405, Str(<<"POST only">>), Undefined)]
    ELSE [h EXCEPT !.pc = "awaiting", !.contacted = TRUE]

\* lines 5-20: up to the await of the fetch of plant.id
HandlerStart(req, origin) ==
    LET h == [HandlerIdle EXCEPT !.origin = origin, !.req = req] IN
    IF req.method # "POST"
    THEN [h EXCEPT !.pc = "done", !.res = Response(405, Str(<<"POST only">>), Undefined)]
    ELSE IF ~Truthy(ImageOf(req))
    THEN [h EXCEPT !.pc = "done",
                   !.res = Response(400, Str(<<"imageBase64 required">>), Undefined)]
    ELSE [h EXCEPT !.pc = "awaiting", !.contacted = TRUE]

\* (data?.suggestions || []).slice(0, 3).map(...), lines 24-33
ProxySuggestions(list) == [i \in 1..Min(3, Len(list)) |-> ToSuggestion(list[i])]

\* a status as the messages print it
StatusAtom(n) ==
    CASE n = 200 -> "200" [] n = 400 -> "400" [] n = 401 -> "401" [] n = 405 -> "405"
      [] n = 429 -> "429" [] n = 500 -> "500"

\* lines 22-37: after the fetch of plant.id
HandlerFinish(h, up) ==
    LET g == [h EXCEPT !.pc = "done", !.up = up] IN
    IF up.threw \/ (up.status \in 200..299 /\ up.badJson)
    THEN [g EXCEPT !.res = Response(500, Str(<<"proxy error">>), Undefined)]
    ELSE IF up.status \notin 200..299
    THEN [g EXCEPT !.res = Response(up.status, Str(<<"plant.id ", StatusAtom(up.status)>>), Undefined)]
    ELSE [g EXCEPT !.res = Response(200, Undefined, Arr(ProxySuggestions(up.suggestions)))]

\* what the fetch of identifyViaProxy sees of the handler's answer
ReplyOf(res) ==
    HttpReply(res.status \in 200..299, StatusAtom(res.status),
              IF res.suggestions.t = "array" THEN res.suggestions.a ELSE <<>>)

\* what runAI got for a call: plant.id's answer, the handler's answer and
\* what identifyViaProxy made of it
Delivery(up, res, got) == [made |-> TRUE, up |-> up, res |-> res, got |-> got]
NoDelivery == [made |-> FALSE, up |-> NoUpstream, res |-> NoResponse,
               got |-> [threw |-> FALSE, message |-> <<>>, list |-> <<>>]]

(***************************************************************************)
(* Weather, as the dashboard sees it                                       *)
(***************************************************************************)
WeatherObj(temperature, rain, sunrise, sunset, daylightPercent, description, icon) ==
    [t |-> "object", temperature |-> temperature, rain |-> rain, sunrise |-> sunrise,
     sunset |-> sunset, daylightPercent |-> daylightPercent,
     description |-> description, icon |-> icon]
Temperature(current, min, max) == [current |-> current, min |-> min, max |-> max]
Rain(probability, rainTotal) == [probability |-> probability, total |-> rainTotal]

\* weatherService.getFallbackData()
getFallbackData ==
    WeatherObj(Temperature(75, 63, 85), Rain(0, "0"), "6:20 AM", "8:06 PM", 55,
               "Partly cloudy", "02d")

\* what getCurrentWeather can resolve with
LiveWeather ==
    { WeatherObj(Temperature(58, 51, 64), Rain(80, "0.12"), "7:02 AM", "6:41 PM", 40,
                 "light rain", "10d") }

\* const currentWeather = weatherData || weatherService.getFallbackData()
currentWeather(data) == OrElse(data, getFallbackData)

\* fetchWeather up to its await: the state it sets
WeatherStarted(w) == [w EXCEPT !.loading = TRUE, !.error = Null]

\* fetchWeather after getCurrentWeather resolved with data
WeatherResolved(w, data) == [w EXCEPT !.data = data, !.loading = FALSE]

WeatherFailed_KeepData(w) ==
    [w EXCEPT !.error = Str(<<"Weather data unavailable">>), !.loading = FALSE]

\* fetchWeather after getCurrentWeather threw
WeatherFailed(w) ==
    [w EXCEPT !.error = Str(<<"Weather data unavailable">>), !.data = getFallbackData,
              !.loading = FALSE]

(***************************************************************************)
(* weatherService.calculateDaylightPercent                                 *)
(***************************************************************************)
\* A number that need not be whole, as numerator over a positive denominator;
\* the two infinities a division by zero can give.  NaN is the value of p1.
Frac(num, den) == [t |-> "number", num |-> num, den |-> den]
Infinity(sign) == [t |-> "number", inf |-> sign]
IsInfinity(v) == "inf" \in DOMAIN v
IsFrac(v) == "den" \in DOMAIN v

\* a / b on two integers
Divide(a, b) ==
    IF b = 0 THEN (IF a = 0 THEN NaN ELSE IF a < 0 THEN Infinity(-1) ELSE Infinity(1))
    ELSE IF b < 0 THEN Frac(0 - a, 0 - b)
    ELSE Frac(a, b)

\* x * k for a whole k > 0
Times(x, k) == IF IsFrac(x) THEN Frac(x.num * k, x.den) ELSE x

\* Math.min(k, x) and Math.max(k, x) for a whole k: NaN when x is NaN
MathMin(k, x) ==
    IF IsNaN(x) THEN NaN
    ELSE IF IsInfinity(x) THEN (IF x.inf > 0 THEN Frac(k, 1) ELSE x)
    ELSE IF x.num > k * x.den THEN Frac(k, 1) ELSE x
MathMax(k, x) ==
    IF IsNaN(x) THEN NaN
    ELSE IF IsInfinity(x) THEN (IF x.inf < 0 THEN Frac(k, 1) ELSE x)
    ELSE IF x.num < k * x.den THEN Frac(k, 1) ELSE x

\* calculateDaylightPercent(now, sunrise, sunset) on the getTime() of its three
\* dates; comparing two Dates with < or > compares their getTime()
calculateDaylightPercent(now, sunrise, sunset) ==
    LET totalDaylight == sunset - sunrise
        elapsedDaylight == now - sunrise
    IN  IF now < sunrise THEN Frac(0, 1)
        ELSE IF now > sunset THEN Frac(100, 1)
        ELSE MathMax(0, MathMin(100, Times(Divide(elapsedDaylight, totalDaylight), 100)))

\* a call of calculateDaylightPercent and what it returned; no call yet
DaylightCall(now, sunrise, sunset) ==
    [now |-> now, sunrise |-> sunrise, sunset |-> sunset,
     result |-> calculateDaylightPercent(now, sunrise, sunset)]
NoDaylight == [called |-> FALSE]

(***************************************************************************)
(* Bounds and inputs                                                       *)
(***************************************************************************)
MaxCreate == 2      \* zones created in a session
MaxInFlight == 1    \* identification requests awaiting their reply
MaxWxInFlight == 1  \* weather fetches awaiting their result

NameInputs == {<<>>, <<"N", "e", "w", "1">>, <<"N", "e", "w", "2">>}
TypeInputs == {<<"S", "h", "r", "u", "b">>}
SunInputs == {<<"F", "u", "l", "l", " ", "s", "u", "n">>}
EmojiInputs == {<<"U+1F331">>}
AreaInputs == {AREAS[i] : i \in 2..Len(AREAS)}
QueryInputs ==
    { <<>>,
      <<"p", "o", "n", "d">>,
      <<"P", "O", "n", "d">>,
      <<" ", "m", "u", "l", "c", "h">>,
      <<"b", "e", "d", " ", "m", "a", "p", "l", "e">>,
      <<"a", "c", "e", "r">>,
      <<" ", " ">>,
      <<"s", "h", "a", "d", "y">>,
      <<"u", "n", "d", "e", "f">>,
      <<"x", "y", "z">> }

\* uid(), lines 42-44, is Math.random().toString(36).slice(2, 10): the ids it
\* drew for BASE_ZONES when the module was loaded, and the ids its next calls
\* draw.  Math.random is a generator seeded when the page starts, so a session
\* starts with its draws decided; nothing in uid() compares a draw with the
\* ids in use.
BaseIdDraws == {<<"u1", "u2", "u3", "u4", "u5", "u6", "u7", "u8">>}
FreshUids == <<"u9", "u10", "u11", "u12">>
UidStreams ==
    { <<"u9", "u10">>,
      <<"u9", "u9">>,
      <<"u3", "u9">>,
      <<"k1", "u9">> }

\* the quest lists a build can ship: QUESTS, no quests, and lists that are not
\* in the order visibleTasks sorts them into
QuestLists ==
    { QUESTS,
      <<>>,
      << [text |-> "Overseed", freq |-> "once"],
         [text |-> "Water azaleas", freq |-> "weekly"],
         [text |-> "Lawn decision", freq |-> "biweekly"] >>,
      << [text |-> "Fertilize", freq |-> "once"],
         [text |-> "Water azaleas", freq |-> "weekly"] >> }

\* the indexes toggleQuest is called with
IndexInputs == {-1, 0, 1, 4, 5, 6}

\* the timestamps calculateDaylightPercent is called with
MaxTime == 4
TimeInputs == 0..MaxTime

\* the sessions started on one localStorage
MaxSessions == 2

\* the ids uid() draws for BASE_ZONES when the module is loaded again
NextBaseIdDraws == {<<"v1", "v2", "v3", "v4", "v5", "v6", "v7", "v8">>}

\* before the first session; how a session ended: its collection, and whether
\* a localStorage call of its load threw
NoSession == [ended |-> FALSE]
SessionEnd == [ended |-> TRUE, zones |-> zones, fault |-> loadFault]

(***************************************************************************)
(* Start of a session                                                      *)
(***************************************************************************)
InitOf(stores, lists, streams) ==
    /\ storage \in stores
    /\ baseIds \in BaseIdDraws
    /\ uidStream \in streams
    /\ quests \in lists
    /\ pc = "boot"
    /\ zones = <<>>
    /\ checks = <<>>
    /\ areaFilter = "All"
    /\ query = <<>>
    /\ showBuilder = FALSE
    /\ modal = ModalReset(defaultArea("All"))
    /\ inFlight = 0
    /\ staleInFlight = 0
    /\ weatherData = Null
    /\ weatherLoading = TRUE
    /\ weatherError = Null
    /\ wxInFlight = 0
    /\ daylight = NoDaylight
    /\ session = 1
    /\ prevSession = NoSession
    /\ handler = HandlerIdle
    /\ delivery = NoDelivery
    /\ loadFault = FALSE
    /\ checksFault = FALSE
    /\ preLoad = storage
    /\ loaded = <<>>
    /\ createdLog = <<>>

\* the shipped build
InitWith(stores) == InitOf(stores, {QUESTS}, {FreshUids})

\* useState(() => safeLoadZones()), line 416
LoadZones ==
    /\ pc = "boot"
    /\ \E fault \in LoadFaults :
         LET r == safeLoadZones(storage, fault) IN
         /\ zones' = r.ret
         /\ loaded' = r.ret
         /\ storage' = r.store
         /\ loadFault' = r.fault
         /\ pc' = IF r.raised THEN "raised" ELSE "loaded"
    /\ UNCHANGED <<baseIds, uidStream, quests, checks, areaFilter, query, showBuilder,
                   modal, inFlight, staleInFlight, weatherVars, serverVars,
                   daylight, sessionVars, checksFault, preLoad, createdLog>>

\* the initializer of checks, lines 421-430
LoadChecks ==
    /\ pc = "loaded"
    /\ \E fault \in BOOLEAN :
         /\ checks' = loadChecks(quests, storage, fault)
         /\ checksFault' = (fault /\ checks' # loadChecks(quests, storage, FALSE))
    /\ pc' = "rendered"
    /\ UNCHANGED <<storage, baseIds, uidStream, quests, zones, areaFilter, query,
                   showBuilder, modal, inFlight, staleInFlight, weatherVars,
                   serverVars, daylight, sessionVars, loadFault, preLoad, loaded,
                   createdLog>>

\* the three state values of lines 462-464 as one record
Weather == [data |-> weatherData, loading |-> weatherLoading, error |-> weatherError]
SetWeather(w) ==
    /\ weatherData' = w.data
    /\ weatherLoading' = w.loading
    /\ weatherError' = w.error

\* The effects of lines 432-433 and 467-488 after the first render: the two
\* saves, then the first fetchWeather up to its await.  A setItem that throws
\* inside an effect takes the whole tree down.
MountEffects ==
    /\ pc = "rendered"
    /\ \/ /\ storage' = saveChecks(saveZones(storage, zones), checks)
          /\ pc' = "ready"
          /\ SetWeather(WeatherStarted(Weather))
          /\ wxInFlight' = wxInFlight + 1
       \/ /\ storage' = storage
          /\ pc' = "crashed"
          /\ UNCHANGED weatherVars
       \/ /\ storage' = saveZones(storage, zones)
          /\ pc' = "crashed"
          /\ UNCHANGED weatherVars
    /\ UNCHANGED <<baseIds, uidStream, quests, zones, checks, areaFilter, query,
                   showBuilder, modal, inFlight, staleInFlight, serverVars,
                   daylight, sessionVars, loadFault, checksFault, preLoad, loaded,
                   createdLog>>

(***************************************************************************)
(* The dashboard                                                           *)
(***************************************************************************)
\* setShowBuilder(true), line 606; the modal's effect then resets its fields
OpenModal ==
    /\ pc = "ready"
    /\ ~showBuilder
    /\ showBuilder' = TRUE
    /\ modal' = ModalReset(defaultArea(areaFilter))
    /\ UNCHANGED <<storage, baseIds, uidStream, quests, pc, zones, checks, areaFilter,
                   query, inFlight, staleInFlight, weatherVars, serverVars,
                   daylight, sessionVars, loadFault, checksFault, preLoad, loaded,
                   createdLog>>

\* onClose, line 691
CloseModal ==
    /\ pc = "ready"
    /\ showBuilder
    /\ showBuilder' = FALSE
    /\ staleInFlight' = inFlight
    /\ UNCHANGED <<storage, baseIds, uidStream, quests, pc, zones, checks, areaFilter,
                   query, modal, inFlight, weatherVars, serverVars, daylight,
                   sessionVars, loadFault, checksFault, preLoad, loaded,
                   createdLog>>

\* setAreaFilter(a), line 617; an open modal resets when defaultArea changes
SetAreaFilter ==
    /\ pc = "ready"
    /\ \E a \in {AREAS[i] : i \in 1..Len(AREAS)} :
         /\ a # areaFilter
         /\ areaFilter' = a
         /\ modal' = IF showBuilder /\ defaultArea(a) # defaultArea(areaFilter)
                     THEN ModalReset(defaultArea(a))
                     ELSE modal
    /\ UNCHANGED <<storage, baseIds, uidStream, quests, pc, zones, checks, query,
                   showBuilder, inFlight, staleInFlight, weatherVars, serverVars,
                   daylight, sessionVars, loadFault, checksFault, preLoad, loaded,
                   createdLog>>

\* setQuery(e.target.value), line 631
SetQuery ==
    /\ pc = "ready"
    /\ \E q \in QueryInputs : q # query /\ query' = q
    /\ UNCHANGED <<storage, baseIds, uidStream, quests, pc, zones, checks, areaFilter,
                   showBuilder, modal, inFlight, staleInFlight, weatherVars,
                   serverVars, daylight, sessionVars, loadFault, checksFault,
                   preLoad, loaded, createdLog>>

\* setName(e.target.value), line 338
SetName ==
    /\ pc = "ready"
    /\ showBuilder
    /\ \E n \in NameInputs : n # modal.name /\ modal' = [modal EXCEPT !.name = n]
    /\ UNCHANGED <<storage, baseIds, uidStream, quests, pc, zones, checks, areaFilter,
                   query, showBuilder, inFlight, staleInFlight, weatherVars,
                   serverVars, daylight, sessionVars, loadFault, checksFault,
                   preLoad, loaded, createdLog>>

\* setEmoji(e.target.value), line 343
SetEmoji ==
    /\ pc = "ready"
    /\ showBuilder
    /\ \E e \in EmojiInputs : e # modal.emoji /\ modal' = [modal EXCEPT !.emoji = e]
    /\ UNCHANGED <<storage, baseIds, uidStream, quests, pc, zones, checks, areaFilter,
                   query, showBuilder, inFlight, staleInFlight, weatherVars,
                   serverVars, daylight, sessionVars, loadFault, checksFault,
                   preLoad, loaded, createdLog>>

\* setType(e.target.value), line 348
SetType ==
    /\ pc = "ready"
    /\ showBuilder
    /\ \E ty \in TypeInputs : ty # modal.type /\ modal' = [modal EXCEPT !.type = ty]
    /\ UNCHANGED <<storage, baseIds, uidStream, quests, pc, zones, checks, areaFilter,
                   query, showBuilder, inFlight, staleInFlight, weatherVars,
                   serverVars, daylight, sessionVars, loadFault, checksFault,
                   preLoad, loaded, createdLog>>

\* setArea(e.target.value), line 353
SetArea ==
    /\ pc = "ready"
    /\ showBuilder
    /\ \E a \in AreaInputs : a # modal.area /\ modal' = [modal EXCEPT !.area = a]
    /\ UNCHANGED <<storage, baseIds, uidStream, quests, pc, zones, checks, areaFilter,
                   query, showBuilder, inFlight, staleInFlight, weatherVars,
                   serverVars, daylight, sessionVars, loadFault, checksFault,
                   preLoad, loaded, createdLog>>

\* setSun(e.target.value), line 360
SetSun ==
    /\ pc = "ready"
    /\ showBuilder
    /\ \E s \in SunInputs : s # modal.sun /\ modal' = [modal EXCEPT !.sun = s]
    /\ UNCHANGED <<storage, baseIds, uidStream, quests, pc, zones, checks, areaFilter,
                   query, showBuilder, inFlight, staleInFlight, weatherVars,
                   serverVars, daylight, sessionVars, loadFault, checksFault,
                   preLoad, loaded, createdLog>>

\* setFile(e.target.files?.[0] || null), line 369
SetFile ==
    /\ pc = "ready"
    /\ showBuilder
    /\ \E f \in BOOLEAN : f # modal.file /\ modal' = [modal EXCEPT !.file = f]
    /\ UNCHANGED <<storage, baseIds, uidStream, quests, pc, zones, checks, areaFilter,
                   query, showBuilder, inFlight, staleInFlight, weatherVars,
                   serverVars, daylight, sessionVars, loadFault, checksFault,
                   preLoad, loaded, createdLog>>

\* runAI up to its await, lines 277-285; the button is disabled without a
\* file or while loading
RunAI ==
    /\ pc = "ready"
    /\ showBuilder
    /\ modal.file
    /\ ~modal.loading
    /\ inFlight < MaxInFlight
    /\ modal' = [modal EXCEPT !.loading = TRUE, !.error = Null]
    /\ inFlight' = inFlight + 1
    /\ UNCHANGED <<storage, baseIds, uidStream, quests, pc, zones, checks, areaFilter,
                   query, showBuilder, staleInFlight, weatherVars, serverVars,
                   daylight, sessionVars, loadFault, checksFault, preLoad, loaded,
                   createdLog>>

\* runAI after its await, lines 285-298
AfterIdentify(m, reply) ==
    LET res == identifyViaProxy(reply) IN
    IF res.threw
    THEN [m EXCEPT !.error = Str(res.message), !.loading = FALSE]
    ELSE IF Len(res.list) = 0
    THEN [m EXCEPT !.suggestions = Arr(res.list), !.loading = FALSE]
    ELSE
    LET top == res.list[1]
        s == Join(top.sunlight, <<",", " ">>)
    IN [m EXCEPT !.suggestions = Arr(res.list),
                 !.name = top.name,
                 !.type = IF Len(top.common_names) > 0 /\ top.common_names[1] # <<>>
                          THEN top.common_names[1] \o Chars_AI
                          ELSE Chars_Plant \o Chars_AI,
                 !.sun = IF s # <<>> THEN s ELSE m.sun,
                 !.loading = FALSE]

\* the continuation of runAI runs with `reply` for a pending call: one issued
\* before the modal was last closed (stale) or one issued since
Reply(reply, stale) ==
    /\ pc = "ready"
    /\ IF stale THEN staleInFlight > 0 ELSE inFlight > staleInFlight
    /\ modal' = AfterIdentify(modal, reply)
    /\ inFlight' = inFlight - 1
    /\ staleInFlight' = IF stale THEN staleInFlight - 1 ELSE staleInFlight
    /\ UNCHANGED <<storage, baseIds, uidStream, quests, pc, zones, checks, areaFilter,
                   query, showBuilder, weatherVars, daylight, sessionVars,
                   loadFault, checksFault, preLoad, loaded, createdLog>>

\* the fetch of identifyViaProxy settles
AIReply ==
    /\ \E reply \in ProxyReplies, stale \in BOOLEAN : Reply(reply, stale)
    /\ UNCHANGED serverVars

\* a suggestion chip, line 390
ChooseSuggestion ==
    /\ pc = "ready"
    /\ showBuilder
    /\ modal.suggestions.t = "array"
    /\ \E i \in 0..(Len(modal.suggestions.a) - 1) :
         modal' = [modal EXCEPT !.aiChosen = i, !.name = modal.suggestions.a[i + 1].name]
    /\ modal' # modal
    /\ UNCHANGED <<storage, baseIds, uidStream, quests, pc, zones, checks, areaFilter,
                   query, showBuilder, inFlight, staleInFlight, weatherVars,
                   serverVars, daylight, sessionVars, loadFault, checksFault,
                   preLoad, loaded, createdLog>>

\* accept(), lines 301-317, then the save effect of line 432
Accept ==
    /\ pc = "ready"
    /\ showBuilder
    /\ Len(createdLog) < MaxCreate
    /\ uidStream # <<>>
    /\ LET z == NewZone(modal, Head(uidStream)) IN
         /\ zones' = Prepend(z, zones)
         /\ createdLog' = Append(createdLog, [zone |-> z, from |-> modal])
    /\ uidStream' = Tail(uidStream)
    /\ showBuilder' = FALSE
    /\ staleInFlight' = inFlight
    /\ \/ storage' = saveZones(storage, zones') /\ pc' = "ready"
       \/ storage' = storage /\ pc' = "crashed"
    /\ UNCHANGED <<baseIds, quests, checks, areaFilter, query, modal, inFlight,
                   weatherVars, serverVars, daylight, sessionVars, loadFault,
                   checksFault, preLoad, loaded>>

\* next[i] = !next[i] on a copy of prev, lines 436-440
Toggled(prev, i) ==
    [k \in 1..(IF Len(prev) > i THEN Len(prev) ELSE i + 1) |->
        IF k = i + 1 THEN Bool(~(k <= Len(prev) /\ Truthy(prev[k])))
        ELSE IF k <= Len(prev) THEN prev[k]
        ELSE Undefined]

\* toggleQuest(i), then the save effect of line 433
ToggleQuestAt(i) ==
    /\ pc = "ready"
    /\ checks' = Toggled(checks, i)
    /\ \/ storage' = saveChecks(storage, checks') /\ pc' = "ready"
       \/ storage' = storage /\ pc' = "crashed"
    /\ UNCHANGED <<baseIds, uidStream, quests, zones, areaFilter, query, showBuilder,
                   modal, inFlight, staleInFlight, weatherVars, serverVars,
                   daylight, sessionVars, loadFault, checksFault, preLoad, loaded,
                   createdLog>>

\* the checkbox of row i of visibleTasks, lines 527-536
ToggleQuest == \E i \in 0..(Len(visibleTasks(quests)) - 1) : ToggleQuestAt(i)

\* toggleQuest called with any index
CallToggleQuest == \E i \in IndexInputs : ToggleQuestAt(i)

(***************************************************************************)
(* Weather refreshes, lines 467-488                                        *)
(***************************************************************************)
\* the 30-minute interval fires: fetchWeather up to its await
WeatherTimer ==
    /\ pc = "ready"
    /\ wxInFlight < MaxWxInFlight
    /\ SetWeather(WeatherStarted(Weather))
    /\ wxInFlight' = wxInFlight + 1
    /\ UNCHANGED <<storage, baseIds, uidStream, quests, pc, zones, checks, areaFilter,
                   query, showBuilder, modal, inFlight, staleInFlight, serverVars,
                   daylight, sessionVars, loadFault, checksFault, preLoad, loaded,
                   createdLog>>

\* getCurrentWeather settles: fetchWeather after its await
WeatherReply ==
    /\ pc = "ready"
    /\ wxInFlight > 0
    /\ \/ \E data \in LiveWeather : SetWeather(WeatherResolved(Weather, data))
       \/ SetWeather(WeatherFailed(Weather))
    /\ wxInFlight' = wxInFlight - 1
    /\ UNCHANGED <<storage, baseIds, uidStream, quests, pc, zones, checks, areaFilter,
                   query, showBuilder, modal, inFlight, staleInFlight, serverVars,
                   daylight, sessionVars, loadFault, checksFault, preLoad, loaded,
                   createdLog>>

(***************************************************************************)
(* The identify function serving requests                                  *)
(***************************************************************************)
\* the request identifyViaProxy sends, and what any other client may send
ModalRequest == Request("POST", Body(Str(<<"b64">>)))
OtherRequests ==
    { Request("GET", Undefined),
      Request("GET", Body(Str(<<"b64">>))),
      Request("POST", Undefined),
      Request("POST", Body(Undefined)),
      Request("POST", Body(Str(<<>>))),
      Request("POST", Body(Str(<<"b64">>))) }

UpA == UpstreamSuggestion(<<"F", "e", "r", "n">>, <<>>, Num(80), << <<"S", "w", "o", "r", "d">> >>,
                          << <<"s", "h", "a", "d", "e">>, <<"s", "u", "n">> >>)
UpB == UpstreamSuggestion(<<>>, <<"I", "v", "y">>, Str(<<"h", "i", "g", "h">>), <<>>, <<>>)
UpC == UpstreamSuggestion(<<>>, <<>>, Num(4), <<>>, << <<"s", "h", "a", "d", "e">> >>)
UpD == UpstreamSuggestion(<<"O", "a", "k">>, <<"Q">>, Num(1), <<>>, <<>>)

UpstreamReplies ==
    { Upstream(TRUE, 0, FALSE, <<>>),
      Upstream(FALSE, 401, FALSE, <<>>),
      Upstream(FALSE, 429, FALSE, <<>>),
      Upstream(FALSE, 200, TRUE, <<>>),
      Upstream(FALSE, 200, FALSE, <<>>),
      Upstream(FALSE, 200, FALSE, <<UpB>>),
      Upstream(FALSE, 200, FALSE, <<UpA, UpB, UpC>>),
      Upstream(FALSE, 200, FALSE, <<UpC, UpA, UpB, UpD>>) }

\* a request reaches the handler, which runs to its await or to its answer
HandlerRequest ==
    /\ pc = "ready"
    /\ handler.pc = "idle"
    /\ \/ inFlight > 0 /\ handler' = HandlerStart(ModalRequest, "modal")
       \/ \E req \in OtherRequests : handler' = HandlerStart(req, "other")
    /\ UNCHANGED <<storage, baseIds, uidStream, quests, pc, zones, checks, areaFilter,
                   query, showBuilder, modal, inFlight, staleInFlight,
                   weatherVars, delivery, daylight, sessionVars, loadFault,
                   checksFault, preLoad, loaded, createdLog>>

\* the fetch of plant.id settles and the handler answers
HandlerUpstream ==
    /\ handler.pc = "awaiting"
    /\ \E up \in UpstreamReplies : handler' = HandlerFinish(handler, up)
    /\ UNCHANGED <<storage, baseIds, uidStream, quests, pc, zones, checks, areaFilter,
                   query, showBuilder, modal, inFlight, staleInFlight,
                   weatherVars, delivery, daylight, sessionVars, loadFault,
                   checksFault, preLoad, loaded, createdLog>>

\* the answer to another client leaves
HandlerRespond ==
    /\ handler.pc = "done"
    /\ handler.origin = "other"
    /\ handler' = HandlerIdle
    /\ UNCHANGED <<storage, baseIds, uidStream, quests, pc, zones, checks, areaFilter,
                   query, showBuilder, modal, inFlight, staleInFlight,
                   weatherVars, delivery, daylight, sessionVars, loadFault,
                   checksFault, preLoad, loaded, createdLog>>

\* the answer to identifyViaProxy arrives and runAI continues with it
ProxyReply ==
    /\ handler.pc = "done"
    /\ handler.origin = "modal"
    /\ \E stale \in BOOLEAN : Reply(ReplyOf(handler.res), stale)
    /\ delivery' = Delivery(handler.up, handler.res, identifyViaProxy(ReplyOf(handler.res)))
    /\ handler' = HandlerIdle

\* getCurrentWeather, lines 58-61: the clock and the two times of the reply go
\* through calculateDaylightPercent
Daylight ==
    /\ \E now \in TimeInputs, sunrise \in TimeInputs, sunset \in TimeInputs :
         daylight' = DaylightCall(now, sunrise, sunset)
    /\ UNCHANGED <<storage, baseIds, uidStream, quests, pc, zones, checks, areaFilter,
                   query, showBuilder, modal, inFlight, staleInFlight, weatherVars,
                   serverVars, sessionVars, loadFault, checksFault, preLoad, loaded,
                   createdLog>>

\* The page is closed and opened again: the module is loaded anew (BASE_ZONES
\* draws new ids, line 46), every useState starts over, pending replies are
\* gone with the page, and localStorage is what the last session left.
NewSession ==
    /\ pc = "ready"
    /\ session < MaxSessions
    /\ session' = session + 1
    /\ prevSession' = SessionEnd
    /\ baseIds' \in NextBaseIdDraws
    /\ pc' = "boot"
    /\ zones' = <<>>
    /\ checks' = <<>>
    /\ areaFilter' = "All"
    /\ query' = <<>>
    /\ showBuilder' = FALSE
    /\ modal' = ModalReset(defaultArea("All"))
    /\ inFlight' = 0
    /\ staleInFlight' = 0
    /\ SetWeather([data |-> Null, loading |-> TRUE, error |-> Null])
    /\ wxInFlight' = 0
    /\ loadFault' = FALSE
    /\ checksFault' = FALSE
    /\ preLoad' = storage
    /\ loaded' = <<>>
    /\ createdLog' = <<>>
    /\ UNCHANGED <<storage, uidStream, quests, daylight, serverVars>>
(***************************************************************************)
(* Zone filter                                                             *)
(***************************************************************************)
Upper == <<"A", "B", "C", "D", "E", "F", "G", "H", "I", "J", "K", "L", "M",
           "N", "O", "P", "Q", "R", "S", "T", "U", "V", "W", "X", "Y", "Z">>
Lower == <<"a", "b", "c", "d", "e", "f", "g", "h", "i", "j", "k", "l", "m",
           "n", "o", "p", "q", "r", "s", "t", "u", "v", "w", "x", "y", "z">>

LowerChar(c) ==
    IF \E k \in 1..26 : Upper[k] = c THEN Lower[CHOOSE k \in 1..26 : Upper[k] = c] ELSE c

\* String.prototype.toLowerCase
toLowerCase(str) == [i \in 1..Len(str) |-> LowerChar(str[i])]

WhiteSpace == {" ", "\t", "\n", "U+00A0"}

\* String.prototype.trim
RECURSIVE trim(_)
trim(str) ==
    IF str = <<>> THEN <<>>
    ELSE IF str[1] \in WhiteSpace THEN trim(Tail(str))
    ELSE IF str[Len(str)] \in WhiteSpace THEN trim(SubSeq(str, 1, Len(str) - 1))
    ELSE str

\* String.prototype.includes
includes(text, q) ==
    \E i \in 0..(Len(text) - Len(q)) : SubSeq(text, i + 1, i + Len(q)) = q

RECURSIVE DecimalAtoms(_)
DecimalAtoms(n) ==
    IF n < 10 THEN <<Digits[n + 1]>>
    ELSE DecimalAtoms(n \div 10) \o <<Digits[(n % 10) + 1]>>

\* the string that + and join make of a value
ToText(v) ==
    CASE v.t = "string" -> v.s
      [] v.t = "undefined" -> <<"u", "n", "d", "e", "f", "i", "n", "e", "d">>
      [] v.t = "null" -> <<"n", "u", "l", "l">>
      [] v.t = "boolean" -> IF v.b THEN <<"t", "r", "u", "e">> ELSE <<"f", "a", "l", "s", "e">>
      [] v.t = "number" -> IF IsNaN(v) THEN <<"N", "a", "N">> ELSE DecimalAtoms(v.n)
      [] OTHER -> <<>>

\* (z.tags || []).join(" ")
TagText(z) ==
    LET tags == OrElse(z.tags, Arr(<<>>)) IN
    Join([i \in 1..Len(tags.a) |-> ToText(tags.a[i])], <<" ">>)

ZoneText_CaseSensitive(z) ==
    ToText(z.name) \o <<" ">> \o ToText(z.type) \o <<" ">>
        \o TagText(z) \o <<" ">> \o ToText(z.sun)

ZoneText_WithSubzones(z) ==
    LET subs == OrElse(z.subzones, Arr(<<>>)) IN
    toLowerCase(ToText(z.name) \o <<" ">> \o ToText(z.type) \o <<" ">>
                \o TagText(z) \o <<" ">> \o ToText(z.sun) \o <<" ">>
                \o Join([i \in 1..Len(subs.a) |-> ToText(GetName(subs.a[i]))], <<" ">>))

\* line 456
ZoneText(z) ==
    toLowerCase(ToText(z.name) \o <<" ">> \o ToText(z.type) \o <<" ">>
                \o TagText(z) \o <<" ">> \o ToText(z.sun))

\* lines 455-457
Passes(z, filter, q) ==
    LET areaOk == IF filter = "All" THEN TRUE ELSE z.area = Str(<<filter>>) IN
    areaOk /\ (IF q # <<>> THEN includes(ZoneText(z), q) ELSE TRUE)

\* the useMemo of lines 452-459
filtered ==
    LET q == toLowerCase(trim(query)) IN
    SelectSeq(zones, LAMBDA z : Passes(z, areaFilter, q))

(***************************************************************************)
(* What localStorage may hold when a session starts                        *)
(***************************************************************************)
NoStorage == [k \in Keys |-> Null]

EmptyObj ==
    ZoneObj(Undefined, Undefined, Undefined, Undefined, Undefined, Undefined,
            Undefined, Undefined, Undefined, Undefined, Undefined)

\* a complete record
StoredX ==
    ZoneObj(Str(<<"k1">>), Str(<<"X">>), Str(<<"Front Yard">>), Str(<<"H", "e", "r", "b">>),
            Str(<<"West">>), Str(<<"S", "u", "n">>), Null, Arr(<<>>), Undefined,
            Str(<<"U+1F33F">>), Undefined)
\* {area: "Front Yard"}
StoredNoName == [EmptyObj EXCEPT !.area = Str(<<"Front Yard">>)]
\* {name: 7, area: "Back Yard"}
StoredNumName == [EmptyObj EXCEPT !.name = Num(7), !.area = Str(<<"Back Yard">>)]
\* {name: "Y", area: "Nowhere"}
StoredBare == [EmptyObj EXCEPT !.name = Str(<<"Y">>), !.area = Str(<<"Nowhere">>)]
\* {id: 5, name: "Z", area: "Side Yard", subzones: [null, 7]}
StoredOddSub ==
    [EmptyObj EXCEPT !.id = Num(5), !.name = Str(<<"Z">>), !.area = Str(<<"Side Yard">>),
                     !.subzones = Arr(<<Null, Num(7)>>)]

ZoneTexts ==
    { Null,
      Str(<<>>),
      Str(<<"{", "b", "a", "d">>),
      JsonText(Null),
      JsonText(Num(7)),
      JsonText(StoredX),
      JsonText(Arr(<<>>)),
      JsonText(Arr(<<StoredNoName>>)),
      JsonText(Arr(<<StoredNoName, StoredNumName, Null, Num(7), Str(<<"X">>), Arr(<<>>)>>)),
      JsonText(Arr(<<StoredX>>)),
      JsonText(Arr(<<StoredX, StoredNoName>>)),
      JsonText(Arr(<<StoredNoName, StoredBare, Null, StoredOddSub, StoredX>>)) }

SchemaTexts ==
    { Null,
      Str(<<>>),
      StringOf(SCHEMA_VERSION),
      StringOf(SCHEMA_VERSION - 1),
      StringOf(0),
      Str(<<"0", "4">>),
      Str(<<"a", "b", "c">>),
      JsonText(Str(<<"4">>)) }

QuestTexts == {Null, JsonText(Arr(<<Bool(TRUE), Bool(FALSE)>>))}

LoadStores ==
    { [k \in Keys |-> IF k = ZKEY THEN z ELSE IF k = SKEY THEN s ELSE q] :
        z \in ZoneTexts, s \in SchemaTexts, q \in QuestTexts }

SessionStores ==
    { NoStorage,
      [NoStorage EXCEPT ![SKEY] = StringOf(SCHEMA_VERSION),
                        ![ZKEY] = JSONstringify(Arr(<<StoredX>>)),
                        ![QDONE] = JSONstringify(Arr(<<Bool(TRUE)>>))] }

FernBed ==
    ZoneObj(Str(<<"k2">>), Str(<<"F", "e", "r", "n", " ", "B", "e", "d">>), Str(<<"Side Yard">>),
            Str(<<"F", "e", "r", "n", "s">>), Str(<<"N/A">>), Str(<<"D", "a", "m", "p">>), Null,
            Arr(<<>>), Arr(<<Str(<<"S", "h", "a", "d", "y">>), Str(<<"w", "e", "t">>)>>),
            Str(<<"U+1F33F">>), Undefined)
\* a record that passes isZone and renders, with no type and no sun
Rock ==
    [EmptyObj EXCEPT !.id = Str(<<"k3">>), !.name = Str(<<"R", "o", "c", "k">>),
                     !.area = Str(<<"Back Yard">>), !.notes = Arr(<<>>)]
Hedge ==
    ZoneObj(Str(<<"k4">>), Str(<<"H", "e", "d", "g", "e">>), Str(<<"Back Yard">>),
            Str(<<"R", "o", "w">>), Str(<<"East">>), Str(<<"S", "u", "n">>), Null, Arr(<<>>),
            Undefined, Undefined,
            Arr(<< ZoneObj(Str(<<"k5">>), Str(<<"A", "c", "e", "r">>), Str(<<"Back Yard">>),
                           Str(<<"S", "h", "a", "d", "y", " ", "t", "r", "e", "e">>),
                           Str(<<"East">>), Str(<<"P", "o", "n", "d", " ", "s", "i", "d", "e">>),
                           Null, Arr(<<>>), Undefined, Undefined, Undefined) >>))

FilterStores ==
    { NoStorage,
      [NoStorage EXCEPT ![SKEY] = StringOf(SCHEMA_VERSION),
                        ![ZKEY] = JSONstringify(Arr(<<FernBed, Rock, Hedge, StoredX>>))] }

\* what the quest key may hold
QuestFlagTexts ==
    { Null,
      Str(<<>>),
      Str(<<"[", "t", "r", "u">>),
      JsonText(Null),
      JsonText(Num(1)),
      JsonText(Bool(TRUE)),
      JsonText(StoredX),
      JsonText(Arr(<<>>)),
      JsonText(Arr(<<Bool(TRUE)>>)),
      JsonText(Arr(<<Bool(FALSE), Bool(TRUE), Bool(TRUE)>>)),
      JsonText(Arr(<<Bool(TRUE), Bool(FALSE), Bool(TRUE), Bool(FALSE), Bool(TRUE),
                     Bool(TRUE), Bool(TRUE)>>)),
      JsonText(Arr(<<Num(1), Null, Str(<<"x">>)>>)) }

QuestStores == { [NoStorage EXCEPT ![QDONE] = q] : q \in QuestFlagTexts }

ToggleStores ==
    { NoStorage,
      [NoStorage EXCEPT ![QDONE] = JSONstringify(Arr(<<Bool(TRUE), Bool(TRUE), Bool(TRUE),
                                                       Bool(TRUE), Bool(TRUE)>>))] }

\* stored collections whose records pass isZone: two records with one id, and
\* two records with no id
StoredTwin == [StoredX EXCEPT !.name = Str(<<"X", "2">>), !.area = Str(<<"Back Yard">>)]
StoredBare2 == [StoredBare EXCEPT !.name = Str(<<"W">>)]
IdStores ==
    { NoStorage,
      [NoStorage EXCEPT ![SKEY] = StringOf(SCHEMA_VERSION),
                        ![ZKEY] = JSONstringify(Arr(<<StoredX>>))],
      [NoStorage EXCEPT ![SKEY] = StringOf(SCHEMA_VERSION),
                        ![ZKEY] = JSONstringify(Arr(<<StoredX, StoredTwin>>))],
      [NoStorage EXCEPT ![SKEY] = StringOf(SCHEMA_VERSION),
                        ![ZKEY] = JSONstringify(Arr(<<StoredBare, StoredBare2>>))] }

(***************************************************************************)
(* Specifications                                                          *)
(***************************************************************************)
Boot == LoadZones \/ LoadChecks \/ MountEffects

\* a session that creates zones and toggles quests
Init == InitWith(SessionStores)

Next ==
    \/ Boot
    \/ OpenModal
    \/ CloseModal
    \/ SetName
    \/ Accept
    \/ ToggleQuest

Spec == Init /\ [][Next]_vars

\* start-up over everything localStorage may hold
InitLoad == InitWith(LoadStores)

NextLoad == Boot

SpecLoad == InitLoad /\ [][NextLoad]_vars

\* one use of the Add Plant modal, from opening it to accept()
InitModal == InitWith({NoStorage})

OpenModalFirst == createdLog = <<>> /\ OpenModal

NextModal ==
    \/ Boot
    \/ OpenModalFirst
    \/ CloseModal
    \/ SetName
    \/ SetEmoji
    \/ SetType
    \/ SetArea
    \/ SetSun
    \/ SetFile
    \/ RunAI
    \/ AIReply
    \/ ChooseSuggestion
    \/ Accept

SpecModal == InitModal /\ [][NextModal]_vars

\* the filter over loaded collections
InitFilter == InitWith(FilterStores)

NextFilter ==
    \/ Boot
    \/ SetAreaFilter
    \/ SetQuery

SpecFilter == InitFilter /\ [][NextFilter]_vars


\* start-up and checkbox toggles, over what the quest key may hold and over
\* quest lists
InitQuest == InitOf(QuestStores, QuestLists, {FreshUids})

NextQuest ==
    \/ Boot
    \/ ToggleQuest

SpecQuest == InitQuest /\ [][NextQuest]_vars

\* toggleQuest as a function of its index
InitToggle == InitWith(ToggleStores)

NextToggle ==
    \/ Boot
    \/ CallToggleQuest

SpecToggle == InitToggle /\ [][NextToggle]_vars

\* loads and creations over the ids uid() may draw
InitIds == InitOf(IdStores, {QUESTS}, UidStreams)

NextIds ==
    \/ Boot
    \/ OpenModal
    \/ CloseModal
    \/ SetName
    \/ Accept

SpecIds == InitIds /\ [][NextIds]_vars

\* a day of use: creations, toggles, filtering, searching and weather refreshes
InitDay == InitWith({NoStorage})

PickArea == SetAreaFilter /\ areaFilter' \in {"All", "Back Yard"}
Search == SetQuery /\ query' \in {<<>>, <<"p", "o", "n", "d">>}
TickFirstRows == \E i \in 0..1 : ToggleQuestAt(i)

NextDay ==
    \/ Boot
    \/ OpenModal
    \/ CloseModal
    \/ Accept
    \/ TickFirstRows
    \/ PickArea
    \/ Search
    \/ WeatherTimer
    \/ WeatherReply

SpecDay == InitDay /\ [][NextDay]_vars

\* identification from the modal through the serverless function to plant.id
InitIdentify == InitWith({NoStorage})

NextIdentify ==
    \/ Boot
    \/ OpenModalFirst
    \/ CloseModal
    \/ SetFile
    \/ RunAI
    \/ HandlerRequest
    \/ HandlerUpstream
    \/ HandlerRespond
    \/ ProxyReply

SpecIdentify == InitIdentify /\ [][NextIdentify]_vars

\* sessions one after another on the same localStorage, each creating zones
RestartStores ==
    SessionStores \cup
    { [NoStorage EXCEPT ![SKEY] = StringOf(SCHEMA_VERSION)],
      [NoStorage EXCEPT ![SKEY] = StringOf(SCHEMA_VERSION - 1),
                        ![ZKEY] = JSONstringify(Arr(<<StoredX>>))],
      [NoStorage EXCEPT ![SKEY] = StringOf(SCHEMA_VERSION),
                        ![ZKEY] = JSONstringify(Arr(<<StoredNoName, StoredBare, StoredX>>))] }

InitRestart == InitWith(RestartStores)

NextRestart ==
    \/ Boot
    \/ OpenModal
    \/ SetName
    \/ Accept
    \/ NewSession

SpecRestart == InitRestart /\ [][NextRestart]_vars

\* calculateDaylightPercent over the timestamps
InitDaylight == InitWith({NoStorage})

NextDaylight == Daylight

SpecDaylight == InitDaylight /\ [][NextDaylight]_vars
(***************************************************************************)
(* Claims about the load (SpecLoad)                                        *)
(***************************************************************************)
\* safeLoadZones has returned
Loaded == pc \in {"loaded", "rendered", "ready", "crashed"}
\* safeLoadZones has returned and nothing else has touched localStorage yet
JustLoaded == pc \in {"loaded", "rendered"}

\* the schema version the marker of `store` stands for: 0 when it is absent
StoredVersion(store) ==
    IF store[SKEY] = Null THEN Num(0) ELSE ToNumber(store[SKEY])
VersionMatches(store) == StoredVersion(store) = Num(SCHEMA_VERSION)

\* a record with name as text and area as text
ValidRecord(e) ==
    /\ e.t = "object"
    /\ e.name.t = "string"
    /\ e.area.t = "string"

\* the zone key of `store` holds the JSON text of an array
HoldsArray(store) ==
    /\ IsJsonText(store[ZKEY])
    /\ store[ZKEY].json.t = "array"
StoredArray(store) == store[ZKEY].json.a
ValidIndexes(store) == {i \in 1..Len(StoredArray(store)) : ValidRecord(StoredArray(store)[i])}

\* C1: when the stored schema marker is absent or differs from SCHEMA_VERSION
\* and no storage call fails, safeLoadZones returns exactly BASE_ZONES, and
\* afterwards the zone key holds the serialized seed and the schema key the
\* current version, whatever the zone key held before.
C1_SchemaReseed ==
    (Loaded /\ ~loadFault /\ ~VersionMatches(preLoad)) =>
        /\ loaded = BASE_ZONES
        /\ zones = BASE_ZONES
        /\ storage[ZKEY] = JSONstringify(Arr(BASE_ZONES))
        /\ storage[SKEY] = StringOf(SCHEMA_VERSION)

C1_Witness ==
    /\ pc = "loaded"
    /\ ~loadFault
    /\ preLoad[SKEY] = StringOf(SCHEMA_VERSION - 1)
    /\ preLoad[ZKEY] = JsonText(Arr(<<StoredX>>))
    /\ storage[ZKEY] = JsonText(Arr(BASE_ZONES))
    /\ storage[SKEY] = JsonText(Num(SCHEMA_VERSION))
    /\ loaded = BASE_ZONES

\* C2: when the stored version matches, no storage call fails and the stored
\* zone value parses to an array with at least one record whose name and area
\* are text, safeLoadZones returns exactly those records of the array, in
\* their stored order: no seed record is mixed in and no other field decides.
C2_ValidationFilter ==
    (Loaded /\ ~loadFault /\ VersionMatches(preLoad) /\ HoldsArray(preLoad)
        /\ ValidIndexes(preLoad) # {}) =>
        /\ Len(loaded) = Cardinality(ValidIndexes(preLoad))
        /\ \A k \in 1..Len(loaded) :
              \E i \in ValidIndexes(preLoad) :
                 /\ loaded[k] = StoredArray(preLoad)[i]
                 /\ Cardinality({j \in ValidIndexes(preLoad) : j < i}) = k - 1

C2_Witness ==
    /\ pc = "loaded"
    /\ ~loadFault
    /\ preLoad[ZKEY] = JsonText(Arr(<<StoredNoName, StoredBare, Null, StoredOddSub, StoredX>>))
    /\ loaded = <<StoredBare, StoredOddSub, StoredX>>

\* C3: when the stored version matches and the stored zone value is absent,
\* unparsable, not an array, or an array with no valid record, safeLoadZones
\* returns the seed collection and writes nothing to localStorage.
C3_SeedWithoutPersisting ==
    (Loaded /\ VersionMatches(preLoad)
        /\ (~HoldsArray(preLoad) \/ ValidIndexes(preLoad) = {})) =>
        /\ loaded = BASE_ZONES
        /\ (JustLoaded => storage = preLoad)

C3_Witness ==
    /\ pc = "loaded"
    /\ VersionMatches(preLoad)
    /\ preLoad[ZKEY] = JsonText(Arr(<<StoredNoName, StoredNumName, Null, Num(7), Str(<<"X">>), Arr(<<>>)>>))
    /\ loaded = BASE_ZONES
    /\ storage = preLoad

\* C4: safeLoadZones never raises to its caller, and whenever a storage read
\* or write failed during the load (a write failing part-way through the
\* reseed included) the collection it returns is the seed collection.
C4_LoadNeverRaises ==
    /\ pc # "raised"
    /\ (Loaded /\ loadFault) => (loaded = BASE_ZONES /\ zones = BASE_ZONES)

\* setItem for the schema key threw after the zone key was reseeded
C4_Witness ==
    /\ pc = "loaded"
    /\ loadFault
    /\ storage[ZKEY] # preLoad[ZKEY]
    /\ storage[SKEY] = preLoad[SKEY]
    /\ loaded = BASE_ZONES

(***************************************************************************)
(* Claims about a session (Spec)                                           *)
(***************************************************************************)
\* C5: write-through persistence: in every state reached after start-up and
\* after any zone creations and quest toggles, their save effects run and no
\* storage write failed, the zone key holds the serialization of the
\* in-memory collection and the quest key that of the in-memory flags.
C5_WriteThrough ==
    pc = "ready" =>
        /\ storage[ZKEY] = JSONstringify(Arr(zones))
        /\ storage[QDONE] = JSONstringify(Arr(checks))

\* two zones were created and a toggle left holes that are stored as null
C5_Witness ==
    /\ pc = "ready"
    /\ Len(createdLog) = 2
    /\ Len(zones) = Len(loaded) + 2
    /\ \E i \in 1..Len(checks) :
          /\ checks[i] = Undefined
          /\ storage[QDONE].json.a[i] = Null
    /\ storage[ZKEY].json.a = zones

\* the zones accept() built, newest first
NewestFirst(log) == [i \in 1..Len(log) |-> log[Len(log) + 1 - i].zone]

\* C6: a created zone is put at position 0 and every zone that was there
\* stays after it, in the same order and unchanged: the collection is the
\* created zones, newest first, followed by the loaded collection.
C6_PrependOrder == zones = NewestFirst(createdLog) \o loaded

\* New1 then New2 gives [New2, New1, ...original...]
C6_Witness ==
    /\ Len(createdLog) = 2
    /\ createdLog[1].from.name = <<"N", "e", "w", "1">>
    /\ createdLog[2].from.name = <<"N", "e", "w", "2">>
    /\ zones[1].name = Str(<<"N", "e", "w", "2">>)
    /\ zones[2].name = Str(<<"N", "e", "w", "1">>)
    /\ SubSeq(zones, 3, Len(zones)) = BASE_ZONES

(***************************************************************************)
(* Claims about the filter (SpecFilter)                                    *)
(***************************************************************************)
\* text contains q as a substring
Contains(text, q) ==
    \E start \in 1..(Len(text) + 1) :
        \A k \in 1..Len(q) : start + k - 1 <= Len(text) /\ text[start + k - 1] = q[k]

LowerCased(str) ==
    [i \in 1..Len(str) |->
        IF \E k \in 1..26 : Upper[k] = str[i]
        THEN Lower[CHOOSE k \in 1..26 : Upper[k] = str[i]]
        ELSE str[i]]

\* the query without its leading and trailing white space
Trimmed(q) ==
    LET inner == {i \in 1..Len(q) : q[i] \notin WhiteSpace} IN
    IF inner = {} THEN <<>>
    ELSE SubSeq(q, CHOOSE i \in inner : \A j \in inner : i <= j,
                   CHOOSE i \in inner : \A j \in inner : j <= i)

\* name, type, all tags and sun of z, joined by spaces
OwnText(z) ==
    LET tags == IF z.tags.t = "array" THEN z.tags.a ELSE <<>> IN
    ToText(z.name) \o <<" ">> \o ToText(z.type) \o <<" ">>
        \o Join([i \in 1..Len(tags) |-> ToText(tags[i])], <<" ">>) \o <<" ">> \o ToText(z.sun)

AreaPasses(z) == areaFilter = "All" \/ z.area = Str(<<areaFilter>>)

\* C7 as stated: the filtered result is the subsequence, in collection order,
\* of the zones that pass the area test and whose lower-cased text contains
\* the lower-cased query (or the query is empty).
C7_FilterAsStated ==
    pc = "ready" =>
        filtered = SelectSeq(zones, LAMBDA z :
            /\ AreaPasses(z)
            /\ (query = <<>> \/ Contains(LowerCased(OwnText(z)), LowerCased(query))))

\* C7 amended: the same with the query trimmed of leading and trailing white
\* space first: a query that is empty after trimming passes every zone.
C7_FilterTrimmed ==
    pc = "ready" =>
        filtered = SelectSeq(zones, LAMBDA z :
            /\ AreaPasses(z)
            /\ (Trimmed(query) = <<>>
                \/ Contains(LowerCased(OwnText(z)), LowerCased(Trimmed(query)))))

\* " mulch" finds Mulch Bed, whose text has no " mulch" in it
C7_Witness ==
    /\ pc = "ready"
    /\ query = <<" ", "m", "u", "l", "c", "h">>
    /\ areaFilter = "Front Yard"
    /\ zones = BASE_ZONES
    /\ filtered = <<BASE_ZONES[2]>>
    /\ ~Contains(LowerCased(OwnText(BASE_ZONES[2])), query)

SubzonesOf(z) == IF z.subzones.t = "array" THEN z.subzones.a ELSE <<>>

\* C8: subzones are never matched on their own: a top-level zone whose own
\* name, type, tags and sun do not contain the query (as the filter reads it:
\* trimmed, case-insensitive) is not in the filtered result even when a
\* subzone of it matches, and every element of the result is a top-level zone.
C8_SubzonesNotMatched ==
    pc = "ready" =>
        LET q == LowerCased(Trimmed(query)) IN
        /\ \A k \in 1..Len(filtered) :
              /\ \E i \in 1..Len(zones) : zones[i] = filtered[k]
              /\ Contains(LowerCased(OwnText(filtered[k])), q)
        /\ \A i \in 1..Len(zones) :
              ~Contains(LowerCased(OwnText(zones[i])), q) =>
                  /\ \A k \in 1..Len(filtered) : filtered[k] # zones[i]
                  /\ \A j \in 1..Len(SubzonesOf(zones[i])) :
                        \A k \in 1..Len(filtered) : filtered[k] # SubzonesOf(zones[i])[j]

\* "shady" is in a tag of Fern Bed and in the type of Hedge's subzone only
C8_Witness ==
    /\ pc = "ready"
    /\ query = <<"s", "h", "a", "d", "y">>
    /\ areaFilter = "All"
    /\ zones = <<FernBed, Rock, Hedge, StoredX>>
    /\ Contains(LowerCased(ToText(Hedge.subzones.a[1].type)), query)
    /\ filtered = <<FernBed>>

(***************************************************************************)
(* Claims about zone creation (SpecModal)                                  *)
(***************************************************************************)
ExpectedOrientation(area) ==
    CASE area = "Front Yard" -> "West"
      [] area = "Back Yard" -> "East"
      [] area = "South Side" -> "South"
      [] OTHER -> "N/A"

\* C9: the orientation of a created zone is a function of its area alone,
\* whatever name, type, sun, emoji or suggestion was entered.
C9_Orientation ==
    \A i \in 1..Len(createdLog) :
        LET z == createdLog[i].zone
            from == createdLog[i].from
        IN /\ z.area = Str(<<from.area>>)
           /\ z.orientation = Str(<<ExpectedOrientation(from.area)>>)

C9_Witness ==
    /\ Len(createdLog) = 1
    /\ createdLog[1].from.area = "Side Yard"
    /\ createdLog[1].from.suggestions # Null
    /\ createdLog[1].from.emoji = <<"U+1F331">>
    /\ zones[1].orientation = Str(<<"N/A">>)

NewPlant == <<"N", "e", "w", " ", "P", "l", "a", "n", "t">>

\* C10 as stated: the created name is the entered name when non-empty,
\* otherwise the name of the first suggestion when suggestions were returned,
\* otherwise "New Plant".
C10_NameAsStated ==
    \A i \in 1..Len(createdLog) :
        LET from == createdLog[i].from IN
        createdLog[i].zone.name =
            Str(IF from.name # <<>> THEN from.name
                ELSE IF from.suggestions # Null THEN from.suggestions.a[1].name
                ELSE NewPlant)

\* C10 amended: the created name is the entered name when non-empty,
\* otherwise the name of the suggestion at the chosen index when suggestions
\* were returned and that index is within the list, otherwise "New Plant";
\* it is never empty.
C10_NameChosen ==
    \A i \in 1..Len(createdLog) :
        LET from == createdLog[i].from IN
        /\ createdLog[i].zone.name =
              Str(IF from.name # <<>> THEN from.name
                  ELSE IF from.suggestions # Null /\ from.aiChosen < Len(from.suggestions.a)
                       THEN from.suggestions.a[from.aiChosen + 1].name
                  ELSE NewPlant)
        /\ createdLog[i].zone.name # Str(<<>>)

\* the name was cleared after the second suggestion was chosen
C10_Witness ==
    /\ Len(createdLog) = 1
    /\ createdLog[1].from.name = <<>>
    /\ createdLog[1].from.aiChosen = 1
    /\ Len(createdLog[1].from.suggestions.a) = 3
    /\ zones[1].name = Str(SuggB.name)


(***************************************************************************)
(* Claims about the quest flags (SpecQuest, SpecToggle)                    *)
(***************************************************************************)
questCount == Len(quests)
\* the initializer of checks has run
FlagsLoaded == pc \in {"rendered", "ready", "crashed"}
\* the quest key holds the JSON text of an array
HoldsFlagArray(store) ==
    /\ IsJsonText(store[QDONE])
    /\ store[QDONE].json.t = "array"
StoredFlags(store) == store[QDONE].json.a

\* C11: when no failed read of the quest key replaced the flags: if the persisted value
\* is absent, unparsable or not an array, the flags are questCount entries
\* that are all false; if it is an array, the flags are its first questCount
\* entries (all of them when it is shorter), and every quest index beyond a
\* shorter array reads as not completed.  After load the flag sequence never
\* has more than questCount entries.
C11_QuestFlagLoad ==
    /\ (pc = "rendered" /\ ~checksFault) =>
          IF ~HoldsFlagArray(storage)
          THEN /\ Len(checks) = questCount
               /\ \A i \in 1..Len(checks) : checks[i] = Bool(FALSE)
          ELSE /\ Len(checks) = Min(Len(StoredFlags(storage)), questCount)
               /\ \A i \in 1..Len(checks) : checks[i] = StoredFlags(storage)[i]
               /\ \A i \in 0..(questCount - 1) :
                     i >= Len(StoredFlags(storage)) => ~Checked(checks, i)
    /\ FlagsLoaded => Len(checks) <= questCount

C11_Witness ==
    /\ pc = "rendered"
    /\ ~checksFault
    /\ HoldsFlagArray(storage)
    /\ Len(StoredFlags(storage)) > questCount
    /\ questCount = 5
    /\ Len(checks) = 5

\* C12: toggleQuest(index) with an index outside 0 <= index < questCount is a
\* silent no-op: the flag sequence (its length and every entry), the completed
\* count and the persisted quest value are the same after the call as before.
C12_OutOfRangeNoOp ==
    [][\A i \in IndexInputs :
          ((i < 0 \/ i >= questCount) /\ ToggleQuestAt(i)) =>
              /\ checks' = checks
              /\ done(checks') = done(checks)
              /\ storage'[QDONE] = storage[QDONE]]_vars

\* the percentage of lines 448-450 is drawn from the current flags
completedCount == done(checks)
completionPercent == pct(checks, quests)

\* C13: in every state reached by loading any persisted quest value and then
\* toggling checkboxes, completedCount <= questCount and completionPercent,
\* round(completedCount / max(1, questCount) * 100), is an integer in 0..100,
\* also when the quest list is empty.
C13_PercentBounds ==
    FlagsLoaded =>
        /\ completedCount <= questCount
        /\ completionPercent \in 0..100
        /\ 2 * completionPercent * (IF questCount > 1 THEN questCount ELSE 1)
             - 200 * completedCount \in
                 (1 - (IF questCount > 1 THEN questCount ELSE 1))
                   ..(IF questCount > 1 THEN questCount ELSE 1)
        /\ questCount = 0 => completionPercent = 0

C13_Witness ==
    /\ pc = "ready"
    /\ questCount = 3
    /\ completedCount = 2
    /\ completionPercent = 67

\* the quest rendered in row i (0-based) of the quest log
RowTask(i) == visibleTasks(quests)[i + 1]

\* C14: for any static quest list, the checkbox rendered beside a quest reads
\* and toggles the flag at that quest's position in the original, unsorted
\* list: whenever the checkbox of a row is checked, the flag it shows is the
\* flag of the quest displayed in that row, so the quest reported completed
\* for flag i is the quest at original index i.
C14_IndexStable ==
    pc = "ready" =>
        \A i \in 0..(Len(visibleTasks(quests)) - 1) :
            Checked(checks, i) => RowTask(i) = quests[i + 1]

(***************************************************************************)
(* Claims about the collection in a session (SpecIds, SpecDay)             *)
(***************************************************************************)
IsRecord(v) == v.t = "object"

\* the ids of the zones of zs, top-level and nested, in document order
RECURSIVE IdsOf(_)
IdsOf(zs) ==
    IF zs = <<>> THEN <<>>
    ELSE <<Head(zs).id>>
         \o (IF Head(zs).subzones.t = "array"
             THEN IdsOf(SelectSeq(Head(zs).subzones.a, IsRecord))
             ELSE <<>>)
         \o IdsOf(Tail(zs))

PairwiseDistinct(seq) == \A i, j \in 1..Len(seq) : i < j => seq[i] # seq[j]

\* C15: in every reachable state the ids of all zones of the in-memory
\* collection, top-level and nested subzones together, are pairwise distinct:
\* for the seed, for any collection the load accepts, and after any creations.
C15_UniqueIds == Loaded => PairwiseDistinct(IdsOf(zones))


\* every zone of zs is a zone of ws, with the same fields
KeptIn(zs, ws) == \A i \in 1..Len(zs) : \E j \in 1..Len(ws) : ws[j] = zs[i]

\* C16: within a session no operation removes or edits a zone: in every step
\* after the load (create, toggle, filter, search, weather refresh) the
\* collection does not get shorter and every zone it held is still in it with
\* identical fields; steps that filter, search, toggle a quest or refresh the
\* weather leave the collection as it was.
C16_NoRemovalNoEdit ==
    [][Loaded =>
          /\ Len(zones') >= Len(zones)
          /\ KeptIn(zones, zones')
          /\ (\/ areaFilter' # areaFilter
              \/ query' # query
              \/ checks' # checks
              \/ weatherVars' # weatherVars) => zones' = zones]_vars

C16_Witness ==
    /\ pc = "ready"
    /\ Len(createdLog) = 2
    /\ Len(zones) = Len(loaded) + 2
    /\ areaFilter # "All"
    /\ query # <<>>
    /\ done(checks) > 0
    /\ weatherError # Null

(***************************************************************************)
(* Claims about identification (SpecIdentify, SpecModal)                   *)
(***************************************************************************)
\* plant.id answered OK with readable JSON
UpstreamAnswered(up) == ~up.threw /\ up.status \in 200..299 /\ ~up.badJson

\* C17: the suggestion list a successful identification hands to the modal
\* has between 1 and 3 entries and is, entry by entry and in upstream order,
\* the start of the upstream suggestion list; an upstream or proxy answer with
\* zero suggestions reaches the modal as an error, never as an empty success.
C17_SuggestionPrefix ==
    /\ modal.suggestions.t = "array" => Len(modal.suggestions.a) \in 1..3
    /\ delivery.made =>
          /\ ~delivery.got.threw =>
                /\ UpstreamAnswered(delivery.up)
                /\ Len(delivery.got.list) \in 1..3
                /\ Len(delivery.got.list) = Min(3, Len(delivery.up.suggestions))
                /\ \A i \in 1..Len(delivery.got.list) :
                      delivery.got.list[i] = ToSuggestion(delivery.up.suggestions[i])
          /\ (\/ delivery.up.suggestions = <<>>
              \/ delivery.res.suggestions = Arr(<<>>)) => delivery.got.threw

C17_Witness ==
    /\ delivery.made
    /\ ~delivery.got.threw
    /\ Len(delivery.up.suggestions) = 4
    /\ Len(delivery.got.list) = 3
    /\ showBuilder
    /\ modal.suggestions = Arr(delivery.got.list)

\* the same with an upstream answer that has no suggestions
C17_WitnessEmpty ==
    /\ delivery.made
    /\ UpstreamAnswered(delivery.up)
    /\ delivery.up.suggestions = <<>>
    /\ delivery.res.status = 200
    /\ modal.error = Str(<<"No suggestions returned">>)

\* the request the handler is serving has imageBase64 present
HasImage == Truthy(ImageOf(handler.req))
\* the fetch of plant.id threw, or reading its OK answer threw
UpstreamThrew == handler.up.threw \/ (handler.up.status \in 200..299 /\ handler.up.badJson)
\* plant.id answered with a status that is not OK
UpstreamRefused == ~handler.up.threw /\ handler.up.status \notin 200..299

\* C18: the identify handler contacts plant.id only when the method is POST
\* and imageBase64 is present; a non-POST request is answered 405 whatever its
\* body, a POST without imageBase64 400, an upstream non-OK answer with the
\* upstream status, an exception 500; every served request ends with an
\* answer, and in none of these cases is the answer 200 or has suggestions.
C18_HandlerStatuses ==
    /\ handler.contacted => (handler.req.method = "POST" /\ HasImage)
    /\ handler.pc = "awaiting" => handler.contacted
    /\ handler.pc = "done" =>
          /\ handler.res.status # 0
          /\ handler.req.method # "POST" =>
                (handler.res.status = 405 /\ ~handler.contacted)
          /\ (handler.req.method = "POST" /\ ~HasImage) =>
                (handler.res.status = 400 /\ ~handler.contacted)
          /\ (handler.contacted /\ UpstreamRefused) =>
                handler.res.status = handler.up.status
          /\ (handler.contacted /\ UpstreamThrew) => handler.res.status = 500
          /\ (\/ handler.req.method # "POST"
              \/ ~HasImage
              \/ UpstreamRefused
              \/ UpstreamThrew) =>
                /\ handler.res.status # 200
                /\ handler.res.suggestions = Undefined
                /\ handler.res.error # Undefined

C18_Witness ==
    /\ handler.pc = "done"
    /\ handler.req = Request("GET", Body(Str(<<"b64">>)))
    /\ handler.res.status = 405

\* an upstream refusal relayed
C18_WitnessRelay ==
    /\ handler.pc = "done"
    /\ handler.contacted
    /\ handler.up.status = 429
    /\ handler.res.status = 429

\* the fields of the modal the claim names
SeenFields(m) == <<m.name, m.type, m.sun, m.suggestions, m.loading, m.error>>

\* C19: an identification response that arrives after the modal was closed is
\* discarded: the result of a request that was in flight when the modal was
\* closed never changes the name, type, sun, suggestions, loading or error
\* fields of an open modal, also when the modal was reopened before the
\* response arrived.
C19_LateReplyDiscarded ==
    [][(staleInFlight' < staleInFlight /\ showBuilder) =>
          SeenFields(modal') = SeenFields(modal)]_vars

(***************************************************************************)
(* Claims about weather refreshes (SpecDay)                                *)
(***************************************************************************)
\* a step in which a pending getCurrentWeather settles
WeatherSettles == wxInFlight' < wxInFlight
\* ... by resolving: the data is what it resolved with, the indicator is untouched
SettledWithData == weatherData' \in LiveWeather /\ weatherError' = weatherError
\* ... by failing: fallback data is displayed and the offline indicator is set
SettledOffline ==
    /\ weatherData' = getFallbackData
    /\ currentWeather(weatherData') = getFallbackData
    /\ Truthy(weatherError')

\* C20: for any interleaving of weather refreshes (first fetch and timer, each
\* succeeding or failing) with zone and quest operations: a fetch that fails
\* leaves the fallback data displayed and the offline indicator set, the
\* displayed weather is never absent, and no weather event changes the zones,
\* the quest flags or localStorage.
C20_WeatherIsolated ==
    /\ [](currentWeather(weatherData).t = "object")
    /\ [][WeatherSettles =>
             /\ SettledWithData \/ SettledOffline
             /\ ~weatherLoading']_vars
    /\ [][(pc = "ready" /\ weatherVars' # weatherVars) =>
             /\ zones' = zones
             /\ checks' = checks
             /\ storage' = storage
             /\ pc' = pc]_vars

C20_Witness ==
    /\ pc = "ready"
    /\ Truthy(weatherError)
    /\ weatherData = getFallbackData
    /\ ~weatherLoading
    /\ Len(createdLog) >= 1
    /\ done(checks) >= 1

(***************************************************************************)
(* C21: durability across sessions                                         *)
(***************************************************************************)
\* this session follows one that ended, and no localStorage call threw in the
\* load of either
AfterCleanSession == prevSession.ended /\ ~prevSession.fault /\ ~loadFault

\* C21: when no storage call fails, the collection safeLoadZones returns at
\* the start of a session is the collection the previous session held in
\* memory when it ended, whatever zones that session created: same records,
\* same order, none dropped by the validation of the load.
C21_DurableAcrossSessions == (Loaded /\ AfterCleanSession) => loaded = prevSession.zones

\* a session that created MaxCreate zones ended, and the next one has loaded
C21_Witness ==
    /\ Loaded
    /\ AfterCleanSession
    /\ Len(prevSession.zones) >= MaxCreate + 1
    /\ \E i \in 1..Len(loaded) : loaded[i].id = Str(<<FreshUids[1]>>)
    /\ loaded = prevSession.zones

(***************************************************************************)
(* C22: calculateDaylightPercent                                           *)
(***************************************************************************)
Called == daylight # NoDaylight

\* a result that is a number from 0 to 100
InPercentRange(r) == IsFrac(r) /\ 0 <= r.num /\ r.num <= 100 * r.den

\* a result that is the number num / den
IsQuotient(r, num, den) == IsFrac(r) /\ den # 0 /\ r.num * den = num * r.den

\* C22: for whole timestamps calculateDaylightPercent returns a number from 0
\* to 100: 0 when now is before sunrise, 100 when now is after sunset, and in
\* between 100 * (now - sunrise) / (sunset - sunrise) with a divisor that is
\* not zero, also when sunrise = sunset and when sunset < sunrise.
C22_DaylightPercent ==
    Called =>
        LET d == daylight IN
        /\ InPercentRange(d.result)
        /\ d.now < d.sunrise => IsQuotient(d.result, 0, 1)
        /\ d.now > d.sunset => IsQuotient(d.result, 100, 1)
        /\ (d.now >= d.sunrise /\ d.now <= d.sunset) =>
               IsQuotient(d.result, 100 * (d.now - d.sunrise), d.sunset - d.sunrise)
====
